---- MODULE Spec2Model ----
(***************************************************************************)
(* Voice authentication for online exams: a model of ExamSystem            *)
(* (register_for_exam, start_exam, conduct_exam_with_monitoring) and of    *)
(* VoiceAuthenticator (register_student, verify_student,                   *)
(* continuous_verification). One single-threaded caller, such as main(),   *)
(* enters register_for_exam, verify_student, start_exam,                   *)
(* continuous_verification or conduct_exam_with_monitoring from the menu;  *)
(* a session takes one step per checkpoint. Student ids are strings        *)
(* without path separators, so distinct ids name distinct files.           *)
(*                                                                         *)
(* What the external libraries compute is abstracted as follows.           *)
(*  - A feature matrix is its row count (frames); 0 stands for the None    *)
(*    that extract_features returns when librosa raises.                   *)
(*  - A fitted StandardScaler or GaussianMixture is identified by the      *)
(*    enrollment that fitted it: the student and the number of that        *)
(*    student's enrollment.                                                *)
(*  - gmm.score is an input: an integer in a window round the threshold,   *)
(*    which keeps every order relation between score and threshold.        *)
(*  - datetime.now() at a student's enrollment is the number of that       *)
(*    enrollment: every enrollment records utterances of `duration`        *)
(*    seconds, so the timestamps of a student's enrollments increase.      *)
(***************************************************************************)
EXTENDS Integers, Sequences, FiniteSets

\* ------------------------------------------------------------ bounds
MaxEnrollments == 2   \* trained enrollments per student
MaxChecks == 10       \* largest num_checks passed to continuous_verification
ThresholdSpread == 1  \* thresholds passed to verify_student: default +- spread
ShortUtterance == 5   \* rows of the feature matrix of a truncated recording

\* ------------------------------------------------- program constants
sample_rate == 16000
duration == 5
hop_length == 512
n_components == 16
DefaultThreshold == -50
DefaultNumSamples == 3
ExamNumChecks == 2
PassPercent == 70

models_dir == "voice_models"
Identities == {"s1", "s2"}

\* rows of the feature matrix of a full recording of `duration` seconds
FullUtterance == 1 + (duration * sample_rate) \div hop_length
\* extract_features: None, or a matrix with that many rows
NoFeatures == 0
Features == {NoFeatures, ShortUtterance, FullUtterance}

Thresholds == (DefaultThreshold - ThresholdSpread)..(DefaultThreshold + ThresholdSpread)
\* gmm.score: below, at and above each threshold tried
Scores == (DefaultThreshold - ThresholdSpread)..(DefaultThreshold + ThresholdSpread)
\* gmm.score at a checkpoint: below, at and above the default threshold
CheckpointScores == {DefaultThreshold - 1, DefaultThreshold, DefaultThreshold + 1}

VARIABLES
  files,                \* the file system: path -> content, for existing paths
  registered_students,  \* ExamSystem.registered_students
  enrollments,          \* history: how many enrollments of each student trained
  call,                 \* the running or last top-level call and what it returned
  session,              \* locals of continuous_verification
  lastVerify,           \* history: what the latest verify_student call did
  lastReg,              \* history: the samples of the latest register_student call
  audit                 \* history: verify_student calls made by the current call

vars == <<files, registered_students, enrollments, call, session, lastVerify, lastReg, audit>>

\* ------------------------------------------------------- file system
model_path_shared(student_id) == <<models_dir, "voice_model.pkl">>

\* os.path.join(self.models_dir, f"{student_id}_voice_model.pkl")
model_path(student_id) == <<models_dir, student_id, "_voice_model.pkl">>

\* f"temp_registration_{student_id}_{i}.wav", in the working directory
temp_registration(student_id, i) == <<".", "temp_registration_", student_id, i, ".wav">>

temp_verification_clash(student_id) == model_path(student_id)

\* f"temp_verification_{student_id}.wav", in the working directory
temp_verification(student_id) == <<".", "temp_verification_", student_id, ".wav">>

\* os.path.exists
Exists(fs, path) == path \in DOMAIN fs

\* open(path, 'wb') and write: creates or replaces the whole file
WriteFile(fs, path, content) ==
  [p \in (DOMAIN fs) \cup {path} |-> IF p = path THEN content ELSE fs[p]]

\* if os.path.exists(path): os.remove(path)
RemoveFile(fs, path) == [p \in (DOMAIN fs) \ {path} |-> fs[p]]

\* pickle.dump / pickle.load
Pickle(obj) == <<"pickle", obj>>
Unpickle(blob) == blob[2]

\* record_audio: the recording written to `filename`
RecordAudio(fs, filename, feat) == WriteFile(fs, filename, <<"wav", feat>>)

\* extract_features of a recorded file: None when librosa raises
ExtractFeatures(fs, audio_path) == fs[audio_path][2]

\* the part of the file system that is the profile store
IsModelFile(p) == p[1] = models_dir
ProfileStore == [p \in {q \in DOMAIN files : IsModelFile(q)} |-> files[p]]

\* ------------------------------------------------------ VoiceAuthenticator
\* the for loop of register_student from sample i on: record, extract, keep
\* the features that are not None, remove the temporary file
RECURSIVE RegistrationLoop(_, _, _, _, _)
RegistrationLoop(fs, student_id, samples, i, all_features) ==
  IF i >= Len(samples)
  THEN [files |-> fs, all_features |-> all_features]
  ELSE LET temp_file == temp_registration(student_id, i)
           recorded == RecordAudio(fs, temp_file, samples[i + 1])
           features == ExtractFeatures(recorded, temp_file)
           kept == IF features # NoFeatures
                   THEN Append(all_features, features)
                   ELSE all_features
           cleaned == IF Exists(recorded, temp_file)
                      THEN RemoveFile(recorded, temp_file)
                      ELSE recorded
       IN RegistrationLoop(cleaned, student_id, samples, i + 1, kept)

\* np.vstack(all_features): the rows of the pooled matrix
RECURSIVE VStack(_)
VStack(all_features) ==
  IF all_features = <<>> THEN 0 ELSE Head(all_features) + VStack(Tail(all_features))

CanFitAlways(rows) == TRUE

\* GaussianMixture(n_components=16).fit raises ValueError on fewer rows
CanFit(rows) == rows >= n_components

NewScalerStale(student_id, k) == [student |-> student_id, enrollment |-> k - 1]

\* scaler = StandardScaler(); scaler.fit_transform(combined_features)
NewScaler(student_id, k) == [student |-> student_id, enrollment |-> k]

\* gmm = GaussianMixture(...); gmm.fit(normalized_features)
NewGmm(student_id, k) == [student |-> student_id, enrollment |-> k]

\* register_student(student_id, num_samples) as the student's k-th trained
\* enrollment: the file system after the call and what the caller gets
RegisterStudent(fs, k, student_id, samples) ==
  LET loop == RegistrationLoop(fs, student_id, samples, 0, <<>>)
      all_features == loop.all_features
  IN IF Len(all_features) = 0
     THEN [files |-> loop.files, status |-> "returned", value |-> FALSE, fitted |-> FALSE]
     ELSE LET combined_features == VStack(all_features)
          IN IF ~CanFit(combined_features)
             THEN [files |-> loop.files, status |-> "raised", value |-> FALSE,
                   fitted |-> FALSE]
             ELSE LET model_data == [gmm |-> NewGmm(student_id, k),
                                     scaler |-> NewScaler(student_id, k),
                                     student_id |-> student_id,
                                     registration_date |-> k]
                  IN [files |-> WriteFile(loop.files, model_path(student_id),
                                          Pickle(model_data)),
                      status |-> "returned", value |-> TRUE, fitted |-> TRUE]

DecisionAtLeast(score, threshold) == score >= threshold

\* if score > threshold
Decision(score, threshold) == score > threshold

NoObject == [student |-> "", enrollment |-> 0]

NoModelResultAdmit == TRUE

\* if not os.path.exists(model_path): ... return False
NoModelResult == FALSE

\* verify_student(student_id, threshold): the file system after the call and
\* what it did; `feat` is what the recording yields, `score` what gmm.score
\* gives on it
VerifyStudent(fs, student_id, threshold, feat, score) ==
  LET path == model_path(student_id)
      blank == [student_id |-> student_id, threshold |-> threshold,
                files |-> fs, cause |-> "no_model", recorded |-> FALSE,
                scored |-> FALSE, gmm |-> NoObject, scaler |-> NoObject,
                score |-> 0, result |-> NoModelResult]
  IN IF ~Exists(fs, path)
     THEN blank
     ELSE LET model_data == Unpickle(fs[path])
              gmm == model_data.gmm
              scaler == model_data.scaler
              temp_file == temp_verification(student_id)
              recorded == RecordAudio(fs, temp_file, feat)
              features == ExtractFeatures(recorded, temp_file)
              cleaned == IF Exists(recorded, temp_file)
                         THEN RemoveFile(recorded, temp_file)
                         ELSE recorded
          IN IF features = NoFeatures
             THEN [blank EXCEPT !.files = cleaned, !.cause = "no_features",
                                !.recorded = TRUE, !.result = FALSE]
             ELSE [blank EXCEPT !.files = cleaned, !.cause = "scored",
                                !.recorded = TRUE, !.scored = TRUE,
                                !.gmm = gmm, !.scaler = scaler, !.score = score,
                                !.result = Decision(score, threshold)]

\* what lastVerify keeps of a verify_student call
Trace(v) == [student_id |-> v.student_id, threshold |-> v.threshold,
             cause |-> v.cause, recorded |-> v.recorded, scored |-> v.scored,
             gmm |-> v.gmm, scaler |-> v.scaler, score |-> v.score,
             result |-> v.result]

NoVerify == [student_id |-> "", threshold |-> DefaultThreshold, cause |-> "none",
             recorded |-> FALSE, scored |-> FALSE, gmm |-> NoObject,
             scaler |-> NoObject, score |-> 0, result |-> FALSE]

OverallPassedStrict(passed_checks, num_checks) ==
  passed_checks * 100 > num_checks * PassPercent

OverallPassedSixty(passed_checks, num_checks) ==
  passed_checks * 100 >= num_checks * 60

\* if passed_checks >= num_checks * 0.7. The double nearest 0.7 lies below
\* 7/10 by less than 2^-54, and the product is rounded to nearest, so for
\* integers below 2^50 the test agrees with the exact 100 * p >= 70 * n.
OverallPassed(passed_checks, num_checks) ==
  passed_checks * 100 >= num_checks * PassPercent

\* if result: passed_checks += 1
CountCheck(passed_checks, result) ==
  IF result THEN passed_checks + 1 ELSE passed_checks

NextCheckAbortOnFailure(i, num_checks, result) ==
  IF result THEN i + 1 ELSE num_checks

\* for i in range(num_checks): the index after the body ran for i
NextCheck(i, num_checks, result) == i + 1

ExamProceedsAlways(verified) == TRUE

\* if not self.start_exam(student_id): return False
ExamProceeds(verified) == verified

NoSession == [num_checks |-> 0, i |-> 0, passed_checks |-> 0]
NoAudit == [initial |-> "none", verifyCalls |-> 0, succeeded |-> 0]
NoReg == [samples |-> <<>>]

Running == call.status = "running"

\* main(): waiting at the menu prompt, no handler active
Menu == [op |-> "menu", student_id |-> "", status |-> "returned", value |-> FALSE]
AtMenu == call = Menu

SamplesOf(n) == [1..n -> Features]

\* ------------------------------------------------------------------ Init
\* ExamSystem() on an empty working directory
Init ==
  /\ files = [p \in {} |-> 0]
  /\ registered_students = {}
  /\ enrollments = [id \in Identities |-> 0]
  /\ call = Menu
  /\ session = NoSession
  /\ lastVerify = NoVerify
  /\ lastReg = NoReg
  /\ audit = NoAudit

\* --------------------------------------------------------------- actions
\* ExamSystem.register_for_exam(student_id)
RegisterForExam(student_id, samples) ==
  /\ AtMenu
  /\ enrollments[student_id] < MaxEnrollments
  /\ Len(samples) = DefaultNumSamples
  /\ LET r == RegisterStudent(files, enrollments[student_id] + 1, student_id, samples)
         success == r.status = "returned" /\ r.value
     IN /\ files' = r.files
        /\ enrollments' = IF r.fitted
                          THEN [enrollments EXCEPT ![student_id] = @ + 1]
                          ELSE enrollments
        /\ registered_students' = IF success
                                  THEN registered_students \cup {student_id}
                                  ELSE registered_students
        /\ call' = [op |-> "register_for_exam", student_id |-> student_id,
                    status |-> r.status, value |-> r.value]
  /\ lastReg' = [samples |-> samples]
  /\ session' = NoSession
  /\ lastVerify' = NoVerify
  /\ audit' = NoAudit

\* VoiceAuthenticator.verify_student(student_id, threshold)
VerifyStudentCall(student_id, threshold, feat, score) ==
  /\ AtMenu
  /\ LET v == VerifyStudent(files, student_id, threshold, feat, score)
     IN /\ files' = v.files
        /\ lastVerify' = Trace(v)
        /\ call' = [op |-> "verify_student", student_id |-> student_id,
                    status |-> "returned", value |-> v.result]
  /\ session' = NoSession
  /\ lastReg' = NoReg
  /\ audit' = NoAudit
  /\ UNCHANGED <<registered_students, enrollments>>

\* ExamSystem.start_exam(student_id)
StartExam(student_id, feat, score) ==
  /\ AtMenu
  /\ LET v == VerifyStudent(files, student_id, DefaultThreshold, feat, score)
         verified == v.result
     IN /\ files' = v.files
        /\ lastVerify' = Trace(v)
        /\ call' = [op |-> "start_exam", student_id |-> student_id,
                    status |-> "returned", value |-> verified]
  /\ session' = NoSession
  /\ lastReg' = NoReg
  /\ audit' = NoAudit
  /\ UNCHANGED <<registered_students, enrollments>>

\* VoiceAuthenticator.continuous_verification(student_id, num_checks): entry
ContinuousVerification(student_id, num_checks) ==
  /\ AtMenu
  /\ call' = [op |-> "continuous_verification", student_id |-> student_id,
              status |-> "running", value |-> FALSE]
  /\ session' = [num_checks |-> num_checks, i |-> 0, passed_checks |-> 0]
  /\ lastVerify' = NoVerify
  /\ lastReg' = NoReg
  /\ audit' = NoAudit
  /\ UNCHANGED <<files, registered_students, enrollments>>

\* ExamSystem.conduct_exam_with_monitoring(student_id): the initial
\* verification, and the entry of continuous_verification when it succeeded
ConductExam(student_id, feat, score) ==
  /\ AtMenu
  /\ LET v == VerifyStudent(files, student_id, DefaultThreshold, feat, score)
         verified == v.result
     IN /\ files' = v.files
        /\ lastVerify' = Trace(v)
        /\ audit' = [NoAudit EXCEPT !.initial = IF verified THEN "passed" ELSE "failed"]
        /\ IF ExamProceeds(verified)
           THEN /\ call' = [op |-> "conduct_exam_with_monitoring",
                            student_id |-> student_id,
                            status |-> "running", value |-> FALSE]
                /\ session' = [num_checks |-> ExamNumChecks, i |-> 0,
                               passed_checks |-> 0]
           ELSE /\ call' = [op |-> "conduct_exam_with_monitoring",
                            student_id |-> student_id,
                            status |-> "returned", value |-> FALSE]
                /\ session' = NoSession
  /\ lastReg' = NoReg
  /\ UNCHANGED <<registered_students, enrollments>>

\* one pass of the loop of continuous_verification
Checkpoint(feat, score) ==
  /\ Running
  /\ session.i < session.num_checks
  /\ LET v == VerifyStudent(files, call.student_id, DefaultThreshold, feat, score)
         result == v.result
     IN /\ files' = v.files
        /\ lastVerify' = Trace(v)
        /\ session' = [session EXCEPT
                         !.passed_checks = CountCheck(session.passed_checks, result),
                         !.i = NextCheck(session.i, session.num_checks, result)]
        /\ audit' = [audit EXCEPT
                       !.verifyCalls = @ + 1,
                       !.succeeded = IF v.result THEN @ + 1 ELSE @]
  /\ UNCHANGED <<registered_students, enrollments, call, lastReg>>

\* the summary of continuous_verification, returned as it is by
\* conduct_exam_with_monitoring
Summary ==
  /\ Running
  /\ session.i >= session.num_checks
  /\ call' = [call EXCEPT
                !.status = "returned",
                !.value = OverallPassed(session.passed_checks, session.num_checks)]
  /\ UNCHANGED <<files, registered_students, enrollments, session, lastVerify,
                 lastReg, audit>>

\* main(): the handler has returned and the menu is shown again; an
\* exception that left the handler ends the process, and the program is
\* started again on the same working directory with a new ExamSystem()
ReturnToMenu ==
  /\ ~Running
  /\ ~AtMenu
  /\ call' = Menu
  /\ registered_students' = IF call.status = "raised" THEN {} ELSE registered_students
  /\ session' = NoSession
  /\ lastVerify' = NoVerify
  /\ lastReg' = NoReg
  /\ audit' = NoAudit
  /\ UNCHANGED <<files, enrollments>>

Next ==
  \/ AtMenu /\ \E id \in Identities :
                 \E samples \in SamplesOf(DefaultNumSamples) : RegisterForExam(id, samples)
  \/ AtMenu /\ \E id \in Identities, t \in Thresholds, feat \in Features, score \in Scores :
                 VerifyStudentCall(id, t, feat, score)
  \/ AtMenu /\ \E id \in Identities, feat \in Features, score \in CheckpointScores :
                 StartExam(id, feat, score)
  \/ AtMenu /\ \E id \in Identities, n \in 0..MaxChecks : ContinuousVerification(id, n)
  \/ AtMenu /\ \E id \in Identities, feat \in Features, score \in CheckpointScores :
                 ConductExam(id, feat, score)
  \/ Running /\ \E feat \in Features, score \in CheckpointScores : Checkpoint(feat, score)
  \/ Summary
  \/ ReturnToMenu

Spec == Init /\ [][Next]_vars

\* a session that was entered runs its checkpoints and its summary: the
\* loop has nothing to wait for but the caller's own key presses
FairSpec ==
  /\ Spec
  /\ WF_vars(\E feat \in Features, score \in CheckpointScores : Checkpoint(feat, score))
  /\ WF_vars(Summary)

\* ---------------------------------------------------------------- claims
RegisterOps == {"register_for_exam"}
SessionOps == {"continuous_verification", "conduct_exam_with_monitoring"}
VerifyOps == {"verify_student", "start_exam"} \cup SessionOps

Returned == call.status = "returned"
SessionDone == call.op \in SessionOps /\ Returned /\ audit.initial # "failed"

\* the stored profile of an identity, when it has one
HasProfileIn(fs, id) == Exists(fs, model_path(id))
ProfileIn(fs, id) == Unpickle(fs[model_path(id)])
HasProfile(id) == HasProfileIn(files, id)
ProfileOf(id) == ProfileIn(files, id)

\* C1: a session of N >= 1 checkpoints ends Passed exactly when
\* passCount / N >= 0.7 (as 10 * passCount >= 7 * N), and Flagged otherwise;
\* with N = 3, three passes give Passed and one pass gives Flagged.
C1_AggregateDecision ==
  (SessionDone /\ session.num_checks >= 1) =>
     /\ call.value <=> (10 * audit.succeeded >= 7 * session.num_checks)
     /\ (session.num_checks = 3 /\ audit.succeeded = 3) => call.value
     /\ (session.num_checks = 3 /\ audit.succeeded = 1) => ~call.value

\* a session of ten checkpoints of which exactly seven passed ended Passed
C1_Witness ==
  /\ SessionDone
  /\ session.num_checks = 10
  /\ audit.succeeded = 7
  /\ call.value

\* C2 (safety part): the k-th verify_student call of a session is the one of
\* checkpoint k, the pass counter is the number of checkpoints that
\* succeeded, and a session that has returned made exactly N calls.
C2_Counts ==
  (call.op \in SessionOps /\ audit.initial # "failed") =>
     /\ audit.verifyCalls = session.i
     /\ session.i <= session.num_checks
     /\ session.passed_checks = audit.succeeded
     /\ Returned => audit.verifyCalls = session.num_checks

\* C2: a session of N checkpoints calls the verifier once per checkpoint, in
\* order, N times whatever the outcomes (no retry, no abort), counts the
\* successes, and always reaches its end.
C2_SessionRuns ==
  /\ []C2_Counts
  /\ (Running ~> Returned)

\* a session of three checkpoints has returned after a failed checkpoint
\* followed by a passed one
C2_Witness ==
  /\ SessionDone
  /\ session.num_checks = 3
  /\ audit.verifyCalls = 3
  /\ audit.succeeded = 1
  /\ lastVerify.result

\* C3: for an enrolled identity and a usable utterance verify_student is
\* positive exactly when score > threshold, a score equal to the threshold
\* fails, and no higher threshold accepts a score that this one rejected.
C3_StrictThreshold ==
  lastVerify.scored =>
     /\ lastVerify.result <=> (lastVerify.score > lastVerify.threshold)
     /\ (lastVerify.score = lastVerify.threshold) => ~lastVerify.result
     /\ \A t \in Thresholds :
          (t >= lastVerify.threshold /\ lastVerify.score > t) => lastVerify.result
     /\ (call.op \in {"verify_student", "start_exam"}) =>
          (call.value = lastVerify.result)

\* verify_student with a threshold above the default scored an utterance at
\* exactly that threshold and rejected it
C3_Witness ==
  /\ call.op = "verify_student"
  /\ lastVerify.scored
  /\ lastVerify.threshold > DefaultThreshold
  /\ lastVerify.score = lastVerify.threshold
  /\ ~call.value

\* what verify_student returns for a VerificationFailure (score at threshold)
VerificationFailureValue == Decision(DefaultThreshold, DefaultThreshold)

\* C4 as stated: verify_student for an identity without a profile records and
\* scores nothing and gives its caller an outcome that differs from the one
\* of a VerificationFailure.
C4_Original ==
  (lastVerify.cause = "no_model") =>
     /\ ~lastVerify.recorded
     /\ ~lastVerify.scored
     /\ lastVerify.result # VerificationFailureValue

\* C4 as amended: verify_student for an identity without a profile records
\* and scores nothing and returns False, the value of a VerificationFailure;
\* a session counts such a checkpoint as failed and goes on.
C4_NoProfileIsFailure ==
  (lastVerify.cause = "no_model") =>
     /\ ~HasProfile(lastVerify.student_id)
     /\ ~lastVerify.recorded
     /\ ~lastVerify.scored
     /\ lastVerify.result = VerificationFailureValue
     /\ (call.op \in {"verify_student", "start_exam"}) => ~call.value
     /\ (call.op \in SessionOps) =>
          /\ audit.succeeded = 0
          /\ session.passed_checks = 0
          /\ Returned => ~call.value

\* a session of two checkpoints for an identity without a profile ran both
\* checkpoints and returned
C4_Witness ==
  /\ call.op = "continuous_verification"
  /\ Returned
  /\ lastVerify.cause = "no_model"
  /\ session.num_checks = 2
  /\ audit.verifyCalls = 2

NoneAt(samples) == {j \in 1..Len(samples) : samples[j] = NoFeatures}
Usable(samples) == SelectSeq(samples, LAMBDA f : f # NoFeatures)

\* C5 as stated: an enrollment in which the extraction of an utterance
\* failed does not complete.
C5_Original ==
  (call.op \in RegisterOps /\ NoneAt(lastReg.samples) # {}) =>
     ~(Returned /\ call.value)

\* C5 as amended: when extraction fails for every utterance register_student
\* returns False, when the pooled matrix has fewer rows than K the training
\* raises, and in both cases the profile store is what it was before the
\* call; an utterance whose extraction failed is otherwise left out and the
\* enrollment goes on with the others.
C5_FailedEnrollment ==
  [][ (call'.op \in RegisterOps) =>
        LET usable == Usable(lastReg'.samples)
        IN /\ (usable = <<>>) =>
                /\ call'.status = "returned" /\ ~call'.value
                /\ ProfileStore' = ProfileStore
           /\ (usable # <<>> /\ VStack(usable) < n_components) =>
                /\ call'.status = "raised"
                /\ ProfileStore' = ProfileStore
           /\ (usable # <<>> /\ VStack(usable) >= n_components) =>
                /\ call'.status = "returned" /\ call'.value
                /\ HasProfileIn(files', call'.student_id) ]_vars

\* a re-enrollment whose training raised left the earlier profile in place
C5_Witness ==
  /\ call.op \in RegisterOps
  /\ call.status = "raised"
  /\ HasProfile(call.student_id)
  /\ NoneAt(lastReg.samples) # {}

\* the k-th enrollment of a student, as the scaler and the model carry it
Enrollment(id, k) == [student |-> id, enrollment |-> k]

\* every stored profile holds the scaler and the model of one enrollment of
\* the identity it is stored for, the latest one
ProfilesWhole ==
  \A id \in Identities :
    /\ HasProfile(id) <=> enrollments[id] >= 1
    /\ HasProfile(id) =>
         /\ ProfileOf(id).student_id = id
         /\ ProfileOf(id).gmm = Enrollment(id, enrollments[id])
         /\ ProfileOf(id).scaler = Enrollment(id, enrollments[id])

\* C6: every scoring of verify_student for X uses the model and the stats of
\* X's stored profile, which one and the same enrollment of X produced.
C6_SameProfile ==
  /\ ProfilesWhole
  /\ lastVerify.scored =>
       /\ lastVerify.gmm = lastVerify.scaler
       /\ lastVerify.gmm.student = lastVerify.student_id
       /\ lastVerify.gmm.enrollment \in 1..enrollments[lastVerify.student_id]
       /\ HasProfile(lastVerify.student_id)
       /\ ProfileOf(lastVerify.student_id).gmm = lastVerify.gmm
       /\ ProfileOf(lastVerify.student_id).scaler = lastVerify.scaler

\* an identity was scored on the profile of its second enrollment while
\* the other identity was enrolled too
C6_Witness ==
  /\ lastVerify.scored
  /\ lastVerify.gmm.enrollment = 2
  /\ \A id \in Identities : HasProfile(id)

\* C7: the store holds at most one profile per identity, and an enrollment
\* of X that succeeds replaces X's whole profile by the new one and leaves
\* the profile of every other identity as it was.
C7_ReplaceOwnProfileOnly ==
  /\ [](\A id \in Identities : HasProfile(id) => ProfileOf(id).student_id = id)
  /\ [](Cardinality(DOMAIN ProfileStore) <= Cardinality(Identities))
  /\ [][ (call'.op \in RegisterOps /\ call'.status = "returned" /\ call'.value) =>
           LET x == call'.student_id
               k == enrollments'[x]
           IN /\ k = enrollments[x] + 1
              /\ HasProfileIn(files', x)
              /\ ProfileIn(files', x) = [gmm |-> Enrollment(x, k),
                                         scaler |-> Enrollment(x, k),
                                         student_id |-> x,
                                         registration_date |-> k]
              /\ \A y \in Identities \ {x} :
                   /\ HasProfileIn(files', y) <=> HasProfile(y)
                   /\ HasProfile(y) => ProfileIn(files', y) = ProfileOf(y) ]_vars

\* an identity that had a profile was enrolled again while the other
\* identity had a profile too
C7_Witness ==
  /\ call.op \in RegisterOps
  /\ Returned /\ call.value
  /\ enrollments[call.student_id] = 2
  /\ \A id \in Identities : HasProfile(id)

\* C8: no step of verify_student, alone or as the initial verification or a
\* checkpoint of a session, changes the profile store, whatever its outcome.
C8_VerifyKeepsStore ==
  [][ (call'.op \in VerifyOps) =>
        /\ ProfileStore' = ProfileStore
        /\ files' = files ]_vars

\* a checkpoint of a session scored and passed with two profiles stored
C8_Witness ==
  /\ call.op \in SessionOps
  /\ audit.verifyCalls >= 1
  /\ lastVerify.scored
  /\ lastVerify.result
  /\ \A id \in Identities : HasProfile(id)

\* C9: with the pass ratio 0.7 and 2 or 3 checkpoints a session ends Passed
\* exactly when every checkpoint passed.
C9_NoFailureTolerated ==
  (SessionDone /\ session.num_checks \in {2, 3}) =>
     (call.value <=> (audit.succeeded = session.num_checks))

\* a session of three checkpoints with a single failed one ended Flagged
C9_Witness ==
  /\ SessionDone
  /\ session.num_checks = 3
  /\ audit.succeeded = 2
  /\ ~call.value

\* C10: a monitored exam runs checkpoints only after the initial
\* verification succeeded; when that fails it returns failure with no
\* checkpoint run, and it returns success exactly when the initial
\* verification succeeded and the session of 2 checkpoints ended Passed.
C10_ExamGate ==
  (call.op = "conduct_exam_with_monitoring") =>
     /\ audit.initial \in {"passed", "failed"}
     /\ (audit.initial = "failed") =>
          /\ Returned /\ ~call.value
          /\ audit.verifyCalls = 0
     /\ (audit.initial = "passed") => session.num_checks = ExamNumChecks
     /\ Returned =>
          (call.value <=>
             /\ audit.initial = "passed"
             /\ audit.verifyCalls = ExamNumChecks
             /\ 10 * audit.succeeded >= 7 * ExamNumChecks)

\* a monitored exam passed its initial verification and was then flagged
\* by a session with a failed checkpoint
C10_Witness ==
  /\ call.op = "conduct_exam_with_monitoring"
  /\ Returned
  /\ audit.initial = "passed"
  /\ audit.verifyCalls = 2
  /\ audit.succeeded = 1
  /\ ~call.value

====
